---- MODULE Spec2Model ----
(***************************************************************************)
(* Model of sapio's branch-declaration machinery                           *)
(* (sapio/src/contract/actions.rs): the ConditionalCompileType algebra and *)
(* its merge operator, the left-to-right fold of a branch's                *)
(* ConditionallyCompileIf list, the type-erased FinishOrFunc call and the  *)
(* Cache / Fresh guard evaluation policy.                                  *)
(***************************************************************************)
EXTENDS Integers, Sequences, FiniteSets, TLC

\* ------------------------------------------------------------------ bounds
\* longest reason list carried by a Fail operand of a single merge
MaxReasons == 2
\* longest reason list carried by a Fail element of a folded list
MaxFoldReasons == 1
\* longest ConditionallyCompileIf list that is folded
MaxLen == 4
\* largest stateful-arguments value handed to FinishOrFunc::call
MaxArg == 1
\* number of calls of one FinishOrFunc that are recorded
MaxCalls == 2
\* number of evaluations of one guard for one contract instance per session
MaxEvals == 2

VARIABLES
    opA, opB, opC,      \* the operands handed to merge
    resAB, resBA,       \* merge(opA, opB) and merge(opB, opA)
    resLeft, resRight,  \* merge(merge(opA, opB), opC) and merge(opA, merge(opB, opC))
    mpc,                \* how far the merges of the operands have been computed
    fList, fAcc,        \* the list elements folded so far and the fold's accumulator
    fof,                \* the FinishOrFunc record: coerce_args and func
    calls,              \* one record per finished FinishOrFunc::call
    gMemo,              \* the session's memo store of Cache guards
    gInvoked,           \* invocations of each guard's underlying function
    gReturned           \* the conditions each guard's evaluations returned

vars == <<opA, opB, opC, resAB, resBA, resLeft, resRight, mpc, fList, fAcc,
          fof, calls, gMemo, gInvoked, gReturned>>
mergeVars == <<opA, opB, opC, resAB, resBA, resLeft, resRight, mpc>>
foldVars == <<fList, fAcc>>
callVars == <<fof, calls>>
guardVars == <<gMemo, gInvoked, gReturned>>

SeqsUpTo(S, n) == UNION {[1..k -> S] : k \in 0..n}

\* ------------------------------------------------- ConditionalCompileType
NeverAndRequired == "Never and Required incompatible"
\* reasons a ConditionallyCompileIf function may give
Reasons == {"a", "b", NeverAndRequired}

Skippable == [tag |-> "Skippable", reasons |-> <<>>]
Nullable == [tag |-> "Nullable", reasons |-> <<>>]
Required == [tag |-> "Required", reasons |-> <<>>]
Never == [tag |-> "Never", reasons |-> <<>>]
NoConstraint == [tag |-> "NoConstraint", reasons |-> <<>>]
Fail(v) == [tag |-> "Fail", reasons |-> v]

NonFail == {Skippable, Nullable, Required, Never, NoConstraint}
ConditionalCompileType(n) == NonFail \cup {Fail(v) : v \in SeqsUpTo(Reasons, n)}

\* merge with one arm changed; bug names the arm:
\*   "leftbias"  Skippable/Nullable returns self instead of Skippable
\*   "identity"  (x, NoConstraint) returns NoConstraint instead of x
\*   "append"    Fail/Fail appends v to v2 instead of v2 to v
\*   "conflict"  Required/Never falls through to the Never arm
\*   "weak"      (Required, Skippable) returns Skippable
\*   "absorb"    (non-Fail, Fail) returns the non-Fail operand
\*   "drop"      Fail/Fail forgets to append v2
mergeWithBug(self, other, bug) ==
    IF self.tag = "NoConstraint" THEN other
    ELSE IF other.tag = "NoConstraint"
        THEN (IF bug = "identity" THEN NoConstraint ELSE self)
    ELSE IF self.tag = "Fail" /\ other.tag = "Fail"
        THEN (IF bug = "append" THEN Fail(other.reasons \o self.reasons)
              ELSE IF bug = "drop" THEN Fail(self.reasons)
              ELSE Fail(self.reasons \o other.reasons))
    ELSE IF self.tag = "Fail" THEN Fail(self.reasons)
    ELSE IF other.tag = "Fail"
        THEN (IF bug = "absorb" THEN self ELSE Fail(other.reasons))
    ELSE IF {self.tag, other.tag} = {"Required", "Never"} /\ bug # "conflict"
        THEN Fail(<<NeverAndRequired>>)
    ELSE IF self.tag = "Required" /\ other.tag = "Skippable" /\ bug = "weak"
        THEN Skippable
    ELSE IF "Never" \in {self.tag, other.tag} THEN Never
    ELSE IF "Required" \in {self.tag, other.tag} THEN Required
    ELSE IF "Skippable" \in {self.tag, other.tag}
        THEN (IF bug = "leftbias" THEN self ELSE Skippable)
    ELSE Nullable

mergeLeftBias(self, other) == mergeWithBug(self, other, "leftbias")
mergeLosesIdentity(self, other) == mergeWithBug(self, other, "identity")
mergeSwapsAppend(self, other) == mergeWithBug(self, other, "append")
mergeNoConflict(self, other) == mergeWithBug(self, other, "conflict")
mergeWeakRequired(self, other) == mergeWithBug(self, other, "weak")
mergeFailNotAbsorbing(self, other) == mergeWithBug(self, other, "absorb")
mergeDropsReasons(self, other) == mergeWithBug(self, other, "drop")

\* ConditionalCompileType::merge: the match arms in source order, the first
\* matching arm wins
merge(self, other) ==
    \* (NoConstraint, x) => x
    IF self.tag = "NoConstraint" THEN other
    \* (x, NoConstraint) => x
    ELSE IF other.tag = "NoConstraint" THEN self
    \* (Fail(v), Fail(v2)) => Fail({ v.append(&mut v2); v })
    ELSE IF self.tag = "Fail" /\ other.tag = "Fail"
        THEN Fail(self.reasons \o other.reasons)
    \* (Fail(v), _) | (_, Fail(v)) => Fail(v)
    ELSE IF self.tag = "Fail" THEN Fail(self.reasons)
    ELSE IF other.tag = "Fail" THEN Fail(other.reasons)
    \* (Required, Never) | (Never, Required) => Fail([...incompatible])
    ELSE IF (self.tag = "Required" /\ other.tag = "Never")
            \/ (self.tag = "Never" /\ other.tag = "Required")
        THEN Fail(<<NeverAndRequired>>)
    \* Never stays Never
    ELSE IF (self.tag = "Never" /\ other.tag = "Skippable")
            \/ (self.tag = "Skippable" /\ other.tag = "Never")
            \/ (self.tag = "Never" /\ other.tag = "Nullable")
            \/ (self.tag = "Nullable" /\ other.tag = "Never")
            \/ (self.tag = "Never" /\ other.tag = "Never")
        THEN Never
    \* Required stays Required
    ELSE IF (self.tag = "Required" /\ other.tag = "Skippable")
            \/ (self.tag = "Skippable" /\ other.tag = "Required")
            \/ (self.tag = "Required" /\ other.tag = "Nullable")
            \/ (self.tag = "Nullable" /\ other.tag = "Required")
            \/ (self.tag = "Required" /\ other.tag = "Required")
        THEN Required
    ELSE IF (self.tag = "Skippable" /\ other.tag = "Skippable")
            \/ (self.tag = "Skippable" /\ other.tag = "Nullable")
            \/ (self.tag = "Nullable" /\ other.tag = "Skippable")
        THEN Skippable
    \* (Nullable, Nullable) => Nullable
    ELSE Nullable

\* a result slot no merge has filled yet
Unset == [tag |-> "Unset", reasons |-> <<>>]

\* ------------------------------------------------ merging three operands
MergeInit ==
    /\ opA \in ConditionalCompileType(MaxReasons)
    /\ opB \in ConditionalCompileType(MaxReasons)
    /\ opC \in ConditionalCompileType(MaxReasons)
    /\ resAB = Unset /\ resBA = Unset /\ resLeft = Unset /\ resRight = Unset
    /\ mpc = "start"

MergeIdle ==
    /\ opA = NoConstraint /\ opB = NoConstraint /\ opC = NoConstraint
    /\ resAB = Unset /\ resBA = Unset /\ resLeft = Unset /\ resRight = Unset
    /\ mpc = "start"

\* a.merge(b) and b.merge(a)
MergePair ==
    /\ mpc = "start"
    /\ resAB' = merge(opA, opB)
    /\ resBA' = merge(opB, opA)
    /\ mpc' = "pair"
    /\ UNCHANGED <<opA, opB, opC, resLeft, resRight>>

\* a.merge(b).merge(c)
MergeLeft ==
    /\ mpc = "pair"
    /\ resLeft' = merge(resAB, opC)
    /\ mpc' = "left"
    /\ UNCHANGED <<opA, opB, opC, resAB, resBA, resRight>>

\* a.merge(b.merge(c))
MergeRight ==
    /\ mpc = "left"
    /\ resRight' = merge(opA, merge(opB, opC))
    /\ mpc' = "done"
    /\ UNCHANGED <<opA, opB, opC, resAB, resBA, resLeft>>

\* ----------------------------------- folding a ConditionallyCompileIf list
FoldInit ==
    /\ fList = <<>>
    /\ fAcc = NoConstraint

\* the fold's next step: the next element of the declared list is merged
\* into the accumulator, accumulator on the left
FoldStep(x) ==
    /\ Len(fList) < MaxLen
    /\ fList' = Append(fList, x)
    /\ fAcc' = merge(fAcc, x)

\* --------------------------------------- FinishOrFunc and CallableAsFoF
\* Result<_, CompilationError>
Ok(v) == [ok |-> TRUE, val |-> v]
Err(e) == [ok |-> FALSE, val |-> e]

StatefulArguments == 0..MaxArg
SpecificArgs == {"s0", "s1"}
\* what a production function returns: a TxTmplIt is a sequence of templates
\* or a CompilationError
TxTmplIt == {Ok(<<>>), Ok(<<"t1", "t2">>), Err("production failed")}
CoerceResult == {Ok(s) : s \in SpecificArgs} \cup {Err("coercion failed")}

\* the two function-pointer fields of a FinishOrFunc that call uses
FinishOrFunc == [coerce_args : [StatefulArguments -> CoerceResult],
                 func : [SpecificArgs -> TxTmplIt]]

CoerceEvent(o) == [fn |-> "coerce_args", o |-> o]
FuncEvent(cself, ctx, args) ==
    [fn |-> "func", cself |-> cself, ctx |-> ctx, args |-> args]

\* call with func invoked on a default argument when coercion fails
callIgnoresCoercionError(self, cself, ctx, o) ==
    LET c == self.coerce_args[o]
        args == IF c.ok THEN c.val ELSE "s0"
    IN  [events |-> <<CoerceEvent(o), FuncEvent(cself, ctx, args)>>,
         ret |-> self.func[args]]

\* FinishOrFunc::call: the function pointers it invokes, in order, and the
\* value it returns
call(self, cself, ctx, o) ==
    LET c == self.coerce_args[o]
    IN  IF ~c.ok
        \* (self.coerce_args)(o)? returns the error early
        THEN [events |-> <<CoerceEvent(o)>>, ret |-> Err(c.val)]
        \* (self.func)(cself, ctx, args)
        ELSE [events |-> <<CoerceEvent(o), FuncEvent(cself, ctx, c.val)>>,
              ret |-> self.func[c.val]]

CallInit ==
    /\ fof \in FinishOrFunc
    /\ calls = <<>>

CallIdle ==
    /\ fof = [coerce_args |-> [o \in StatefulArguments |-> Err("coercion failed")],
              func |-> [a \in SpecificArgs |-> Ok(<<>>)]]
    /\ calls = <<>>

\* one call of the FinishOrFunc through CallableAsFoF, with its outcome
Call(o) ==
    /\ Len(calls) < MaxCalls
    /\ calls' = Append(calls, [o |-> o, out |-> call(fof, "cself", "ctx", o)])
    /\ UNCHANGED fof

\* ------------------------------------------------------ Guard evaluation
Instances == {"i1", "i2"}
\* the guards of a branch and their caching policy
GuardKind == [g1 |-> "Cache", g2 |-> "Fresh"]
Guards == DOMAIN GuardKind
\* conditions a guard function can produce; a guard function may perform
\* external effects, so two invocations need not produce the same Clause
Clause == {"k1", "k2"}
NoClause == "none"

GuardInit ==
    /\ gMemo = [i \in Instances |-> [g \in Guards |-> NoClause]]
    /\ gInvoked = [i \in Instances |-> [g \in Guards |-> 0]]
    /\ gReturned = [i \in Instances |-> [g \in Guards |-> <<>>]]

\* evaluation that consults no memo: the function is invoked every time
evalGuardNoMemo(memo, kind, produced) ==
    [clause |-> produced, invoked |-> 1,
     memo |-> IF kind = "Cache" THEN produced ELSE memo]

\* one evaluation of a guard with the memo entry of its (instance, guard)
\* pair; produced is what the underlying function yields if it is invoked
evalGuard(memo, kind, produced) ==
    IF kind = "Cache" /\ memo # NoClause
    THEN [clause |-> memo, invoked |-> 0, memo |-> memo]
    ELSE [clause |-> produced, invoked |-> 1,
          memo |-> IF kind = "Cache" THEN produced ELSE memo]

EvalGuard(i, g, produced) ==
    /\ Len(gReturned[i][g]) < MaxEvals
    /\ LET e == evalGuard(gMemo[i][g], GuardKind[g], produced)
       IN  /\ gMemo' = [gMemo EXCEPT ![i][g] = e.memo]
           /\ gInvoked' = [gInvoked EXCEPT ![i][g] = @ + e.invoked]
           /\ gReturned' = [gReturned EXCEPT ![i][g] = Append(@, e.clause)]

\* the compilation session ends and its memo store is discarded
EndSession ==
    /\ \E i \in Instances, g \in Guards : gReturned[i][g] # <<>>
    /\ gMemo' = [i \in Instances |-> [g \in Guards |-> NoClause]]
    /\ gInvoked' = [i \in Instances |-> [g \in Guards |-> 0]]
    /\ gReturned' = [i \in Instances |-> [g \in Guards |-> <<>>]]

\* ------------------------------------------------------- specifications
\* three operands are merged pairwise and in both groupings
InitMerge == MergeInit /\ FoldInit /\ CallIdle /\ GuardInit
NextMerge ==
    \/ MergePair /\ UNCHANGED <<foldVars, callVars, guardVars>>
    \/ MergeLeft /\ UNCHANGED <<foldVars, callVars, guardVars>>
    \/ MergeRight /\ UNCHANGED <<foldVars, callVars, guardVars>>
SpecMerge == InitMerge /\ [][NextMerge]_vars

\* a ConditionallyCompileIf list is folded from NoConstraint
InitFold == MergeIdle /\ FoldInit /\ CallIdle /\ GuardInit
NextFold ==
    \E x \in ConditionalCompileType(MaxFoldReasons) :
        FoldStep(x) /\ UNCHANGED <<mergeVars, callVars, guardVars>>
SpecFold == InitFold /\ [][NextFold]_vars

\* a FinishOrFunc is called with stateful arguments
InitCall == MergeIdle /\ FoldInit /\ CallInit /\ GuardInit
NextCall ==
    \E o \in StatefulArguments :
        Call(o) /\ UNCHANGED <<mergeVars, foldVars, guardVars>>
SpecCall == InitCall /\ [][NextCall]_vars

\* the guards of a branch are evaluated for contract instances
InitGuard == MergeIdle /\ FoldInit /\ CallIdle /\ GuardInit
NextGuard ==
    \/ \E i \in Instances, g \in Guards, c \in Clause :
        EvalGuard(i, g, c) /\ UNCHANGED <<mergeVars, foldVars, callVars>>
    \/ EndSession /\ UNCHANGED <<mergeVars, foldVars, callVars>>
SpecGuard == InitGuard /\ [][NextGuard]_vars

\* =================================================== properties of merge
IsFail(x) == x.tag = "Fail"
PairDone == mpc # "start"
RequiredNeverPair(x, y) == {x, y} = {Required, Never}

\* C1: merge is commutative on non-Fail operands: for a, b among
\* NoConstraint, Skippable, Nullable, Required and Never, merge(a, b) and
\* merge(b, a) are the same value, reason list included.
C1_MergeCommutativeOnNonFail ==
    (PairDone /\ opA \in NonFail /\ opB \in NonFail) => resAB = resBA

C1_Witness ==
    /\ PairDone /\ opA = Skippable /\ opB = Nullable
    /\ resAB = Skippable /\ resBA = Skippable

\* C2: NoConstraint is a two-sided identity of merge: merge(NoConstraint, x)
\* and merge(x, NoConstraint) are x for every x, a Fail operand keeping its
\* reason list unchanged.
C2_NoConstraintIsIdentity ==
    (PairDone /\ opA = NoConstraint) => (resAB = opB /\ resBA = opB)

C2_Witness ==
    /\ PairDone /\ opA = NoConstraint /\ opB = Fail(<<"a", "b">>)
    /\ resAB = Fail(<<"a", "b">>) /\ resBA = Fail(<<"a", "b">>)

\* C3: Fail absorbs and accumulates: merge(Fail(v1), Fail(v2)) is
\* Fail(v1 ++ v2), and merging Fail(v) with a non-Fail operand on either side
\* is Fail(v) with v unchanged.
C3_FailAbsorbsAndAccumulates ==
    PairDone =>
        /\ (IsFail(opA) /\ IsFail(opB)) =>
            /\ resAB = Fail(opA.reasons \o opB.reasons)
            /\ resBA = Fail(opB.reasons \o opA.reasons)
        /\ (IsFail(opA) /\ opB \in NonFail) => (resAB = opA /\ resBA = opA)

C3_Witness ==
    /\ PairDone /\ opA = Fail(<<"a">>) /\ opB = Fail(<<"b">>)
    /\ resAB = Fail(<<"a", "b">>) /\ resBA = Fail(<<"b", "a">>)

\* C4: Required and Never conflict in either argument order: both merges are
\* Fail with exactly the one reason "Never and Required incompatible", and no
\* other pair of non-Fail operands merges to a Fail.
C4_RequiredNeverConflict ==
    (PairDone /\ opA \in NonFail /\ opB \in NonFail) =>
        IF RequiredNeverPair(opA, opB)
        THEN /\ resAB = Fail(<<NeverAndRequired>>)
             /\ resBA = Fail(<<NeverAndRequired>>)
        ELSE ~IsFail(resAB) /\ ~IsFail(resBA)

C4_Witness ==
    /\ PairDone /\ opA = Required /\ opB = Never
    /\ resAB = Fail(<<"Never and Required incompatible">>)
    /\ resBA = Fail(<<"Never and Required incompatible">>)

\* the elements of a sequence with their multiplicities
Count(seq, r) == Cardinality({i \in DOMAIN seq : seq[i] = r})
SameReasonsUpToOrder(v, w) ==
    /\ Len(v) = Len(w)
    /\ \A r \in Reasons : Count(v, r) = Count(w, r)

\* C5 as stated: merge(merge(a, b), c) and merge(a, merge(b, c)) are the same
\* variant and, when Fail, carry the same reasons up to the order of the list.
C5_Original ==
    mpc = "done" =>
        /\ resLeft.tag = resRight.tag
        /\ IsFail(resLeft) => SameReasonsUpToOrder(resLeft.reasons, resRight.reasons)

\* C5 amended: merge(merge(a, b), c) and merge(a, merge(b, c)) are the same
\* variant, and they are the same value unless a Required/Never pair is
\* grouped next to a Fail operand: for (Required, Never, Fail(v)) in either
\* order of the pair the left grouping is Fail(synthesized ++ v) and the
\* right one Fail(v); for (Fail(v), Required, Never) the left grouping is
\* Fail(v) and the right one Fail(v ++ synthesized).
C5_AssociativeUpToSynthesizedReason ==
    mpc = "done" =>
        /\ resLeft.tag = resRight.tag
        /\ IF RequiredNeverPair(opA, opB) /\ IsFail(opC)
           THEN /\ resLeft = Fail(<<NeverAndRequired>> \o opC.reasons)
                /\ resRight = opC
           ELSE IF IsFail(opA) /\ RequiredNeverPair(opB, opC)
           THEN /\ resLeft = opA
                /\ resRight = Fail(opA.reasons \o <<NeverAndRequired>>)
           ELSE resLeft = resRight

C5_Witness ==
    /\ mpc = "done" /\ opA = Required /\ opB = Never /\ opC = Fail(<<"a">>)
    /\ resLeft = Fail(<<NeverAndRequired, "a">>) /\ resRight = Fail(<<"a">>)

\* the precedence tier of a non-Fail value
Rank(x) ==
    IF x = NoConstraint THEN 0
    ELSE IF x = Nullable THEN 1
    ELSE IF x = Skippable THEN 2
    ELSE 3

\* C6: on non-Fail operands other than the pair {Required, Never}, merge
\* returns the operand that ranks higher under NoConstraint < Nullable <
\* Skippable < {Required, Never}; in particular merge(x, x) = x.
C6_MergeReturnsStrongerOperand ==
    (PairDone /\ opA \in NonFail /\ opB \in NonFail
        /\ ~RequiredNeverPair(opA, opB)) =>
        /\ resAB = (IF Rank(opA) >= Rank(opB) THEN opA ELSE opB)
        /\ resBA = (IF Rank(opB) >= Rank(opA) THEN opB ELSE opA)
        /\ opA = opB => resAB = opA

C6_Witness ==
    /\ PairDone /\ opA = Required /\ opB = Skippable
    /\ resAB = Required /\ resBA = Required

\* ============================================== properties of the fold
Tags(list) == {list[i].tag : i \in DOMAIN list}
HasFailElement(list) == "Fail" \in Tags(list)

\* C9: folding a list left-to-right with merge from NoConstraint yields Fail
\* exactly when the list holds a Fail element or both a Required and a Never
\* element; an accumulator that is Fail stays Fail for the rest of the fold;
\* the empty list folds to NoConstraint.
C9_FoldFailsIffFailOrConflict ==
    /\ [](IsFail(fAcc) <=>
            (HasFailElement(fList) \/ {"Required", "Never"} \subseteq Tags(fList)))
    /\ [](fList = <<>> => fAcc = NoConstraint)
    /\ [][IsFail(fAcc) => IsFail(fAcc')]_vars

C9_Witness ==
    /\ Len(fList) = 3
    /\ fList[1] = Required /\ fList[2] = Skippable /\ fList[3] = Never
    /\ IsFail(fAcc)

\* the reason lists of the Fail elements of a list, concatenated in list order
RECURSIVE ExplicitReasons(_)
ExplicitReasons(list) ==
    IF list = <<>> THEN <<>>
    ELSE (IF IsFail(Head(list)) THEN Head(list).reasons ELSE <<>>)
         \o ExplicitReasons(Tail(list))

\* v is w with some elements left out
RECURSIVE IsSubsequence(_, _)
IsSubsequence(v, w) ==
    IF v = <<>> THEN TRUE
    ELSE IF w = <<>> THEN FALSE
    ELSE IF Head(v) = Head(w) THEN IsSubsequence(Tail(v), Tail(w))
    ELSE IsSubsequence(v, Tail(w))

RemoveAt(seq, i) == SubSeq(seq, 1, i - 1) \o SubSeq(seq, i + 1, Len(seq))

\* C10: folding a list that holds Fail elements yields Fail, the reasons of
\* the Fail elements, concatenated in list order, are a subsequence of the
\* result's reasons, and the result holds nothing else but, at most once, the
\* synthesized "Never and Required incompatible".
C10_FoldKeepsExplicitReasons ==
    HasFailElement(fList) =>
        /\ IsFail(fAcc)
        /\ IsSubsequence(ExplicitReasons(fList), fAcc.reasons)
        /\ \/ fAcc.reasons = ExplicitReasons(fList)
           \/ \E i \in DOMAIN fAcc.reasons :
                /\ fAcc.reasons[i] = NeverAndRequired
                /\ RemoveAt(fAcc.reasons, i) = ExplicitReasons(fList)

C10_Witness ==
    /\ fList = <<Fail(<<"a">>), Required, Fail(<<"b">>)>>
    /\ fAcc = Fail(<<"a", "b">>)

\* ======================================= properties of FinishOrFunc::call
FuncInvocations(out) == {i \in DOMAIN out.events : out.events[i].fn = "func"}

\* C7: call coerces strictly before it produces: when coerce_args rejects the
\* stateful arguments, call returns that error and func is never invoked;
\* when it accepts them, func is invoked exactly once, after the coercion,
\* with the coerced arguments, and call returns func's result unchanged.
C7_CallCoercesBeforeProduction ==
    \A n \in DOMAIN calls :
        LET o == calls[n].o
            out == calls[n].out
            c == fof.coerce_args[o]
        IN  /\ out.events[1] = CoerceEvent(o)
            /\ IF ~c.ok
               THEN /\ FuncInvocations(out) = {}
                    /\ out.ret = Err(c.val)
               ELSE /\ FuncInvocations(out) = {2}
                    /\ out.events[2].args = c.val
                    /\ out.ret = fof.func[c.val]

C7_Witness ==
    /\ Len(calls) = 2
    /\ ~fof.coerce_args[calls[1].o].ok
    /\ calls[1].out.ret = Err("coercion failed")
    /\ Len(calls[1].out.events) = 1
    /\ fof.coerce_args[calls[2].o] = Ok("s1")
    /\ Len(calls[2].out.events) = 2
    /\ calls[2].out.ret = Ok(<<"t1", "t2">>)

\* ======================================== properties of guard evaluation
\* C8: within one session a Cache guard evaluated any number of times for
\* one contract instance invokes its function exactly once and returns an
\* equal condition every time; a Fresh guard invokes its function on each
\* evaluation.
C8_CacheGuardInvokedOnce ==
    \A i \in Instances, g \in Guards :
        LET returned == gReturned[i][g]
        IN  IF GuardKind[g] = "Cache"
            THEN returned # <<>> =>
                    /\ gInvoked[i][g] = 1
                    /\ \A n \in DOMAIN returned : returned[n] = returned[1]
            ELSE gInvoked[i][g] = Len(returned)

C8_Witness ==
    /\ Len(gReturned["i1"]["g1"]) = 2 /\ gInvoked["i1"]["g1"] = 1
    /\ gReturned["i2"]["g1"] = <<"k2", "k2">>
    /\ gReturned["i1"]["g2"] = <<"k1", "k2">> /\ gInvoked["i1"]["g2"] = 2

====
